---- MODULE Spec2Model ----
(***************************************************************************)
(* A model of clean-keybank-csv.py: one run of main() over one input file. *)
(*                                                                         *)
(* A text (a Python str) is a sequence of one-character strings, so that   *)
(* trimming, the date pattern and the code-point order of str comparison   *)
(* are computed rather than assumed.  A CSV row is a sequence of texts (the *)
(* list csv.reader yields for one row), a file is a sequence of rows.      *)
(***************************************************************************)
EXTENDS Integers, Sequences, FiniteSets, TLC

VARIABLES
    argv,                 \* sys.argv
    fs,                   \* the file system: path -> [exists, rows]
    pc,                   \* position of main()
    input_file,           \* main's local input_file
    output_file,          \* main's local output_file
    input_open,           \* the handle of `with open(input_file)` is open
    output_open,          \* the handle of `with open(output_file, "w")` is open
    line_num,             \* rows the csv.reader has consumed
    column_names,         \* the reader's cached column_names (NotCached before)
    transactions,         \* the list read_transactions returns, in read order
    sorted_transactions,  \* sorted(transactions, reverse=True)
    exit_code,            \* the process's exit status (NoExit while running)
    stderr,               \* what the run reports on failure
    raw_date,             \* SpecDate: the Date text under test
    date_twice            \* SpecDate: iso_date applied to the record's Date again

vars == <<argv, fs, pc, input_file, output_file, input_open, output_open,
          line_num, column_names, transactions, sorted_transactions,
          exit_code, stderr, raw_date, date_twice>>

-----------------------------------------------------------------------------
(* Bounds *)

MaxRows == 4

-----------------------------------------------------------------------------
(* Texts *)

Digits == <<"0", "1", "2", "3", "4", "5", "6", "7", "8", "9">>
Upper == <<"A", "B", "C", "D", "E", "F", "G", "H", "I", "J", "K", "L", "M",
           "N", "O", "P", "Q", "R", "S", "T", "U", "V", "W", "X", "Y", "Z">>
Lower == <<"a", "b", "c", "d", "e", "f", "g", "h", "i", "j", "k", "l", "m",
           "n", "o", "p", "q", "r", "s", "t", "u", "v", "w", "x", "y", "z">>

Range(s) == {s[i] : i \in 1..Len(s)}

IndexIn(s, c) == CHOOSE i \in 1..Len(s) : s[i] = c

\* The code point of a character: the order Python compares str by.
Code(c) ==
    CASE c = "\t" -> 9
      [] c = " " -> 32
      [] c = "#" -> 35
      [] c = "-" -> 45
      [] c = "." -> 46
      [] c = "/" -> 47
      [] c \in Range(Digits) -> 47 + IndexIn(Digits, c)
      [] c \in Range(Upper) -> 64 + IndexIn(Upper, c)
      [] c \in Range(Lower) -> 96 + IndexIn(Lower, c)

\* \s of the pattern and the characters str.strip() removes.
IsSpace(c) == c \in {" ", "\t"}

\* \d of the pattern.
IsDigit(c) == c \in Range(Digits)

\* str < str: code point by code point, a proper prefix is smaller.
RECURSIVE TextLt(_, _)
TextLt(a, b) ==
    IF a = <<>> THEN b # <<>>
    ELSE IF b = <<>> THEN FALSE
    ELSE IF Head(a) = Head(b) THEN TextLt(Tail(a), Tail(b))
    ELSE Code(Head(a)) < Code(Head(b))

\* tuple < tuple: decided by the first position where the two differ.
RECURSIVE TupleLt(_, _)
TupleLt(x, y) ==
    IF x = <<>> THEN y # <<>>
    ELSE IF y = <<>> THEN FALSE
    ELSE IF Head(x) = Head(y) THEN TupleLt(Tail(x), Tail(y))
    ELSE TextLt(Head(x), Head(y))

\* str.strip()
Strip(s) ==
    LET keep == {i \in 1..Len(s) : ~IsSpace(s[i])}
    IN  IF keep = {} THEN <<>>
        ELSE SubSeq(s, CHOOSE i \in keep : \A j \in keep : i <= j,
                       CHOOSE i \in keep : \A j \in keep : j <= i)

-----------------------------------------------------------------------------
(* KeyBankTransaction *)

DATE == <<"D", "a", "t", "e">>
DESCRIPTION == <<"D", "e", "s", "c", "r", "i", "p", "t", "i", "o", "n">>
AMOUNT == <<"A", "m", "o", "u", "n", "t">>
REF == <<"R", "e", "f", ".", "#">>

KEY_COLUMNS == <<DATE, DESCRIPTION, AMOUNT, REF>>
DATE_COLUMN == DATE

\* dict.get(key, default)
Get(data, key, default) == IF key \in DOMAIN data THEN data[key] ELSE default

\* KeyBankTransaction._index
_index(data) == [k \in 1..Len(KEY_COLUMNS) |-> Strip(Get(data, KEY_COLUMNS[k], <<>>))]

\* is_blank over the raw values, without strip()
is_blank_raw(data) ==
    \A k \in 1..Len(KEY_COLUMNS) : Get(data, KEY_COLUMNS[k], <<>>) = <<>>

\* KeyBankTransaction.is_blank
is_blank(data) == \A k \in 1..Len(KEY_COLUMNS) : _index(data)[k] = <<>>

\* KeyBankTransaction.__lt__
Lt(a, b) == TupleLt(_index(a), _index(b))

-----------------------------------------------------------------------------
(* KeyBankTransactionReader *)

NotCached == <<>>

\* column_set.issubset(row) of a row that names any column at all
IsHeaderRow_any(row) == Range(KEY_COLUMNS) \cap Range(row) # {}

\* column_set.issubset(row), required_columns being KEY_COLUMNS
IsHeaderRow(row) == Range(KEY_COLUMNS) \subseteq Range(row)

\* the last row after `from` that IsHeaderRow accepts, 0 when there is none
HeaderScan_last(rows, from) ==
    LET found == {i \in (from + 1)..Len(rows) : IsHeaderRow(rows[i])}
    IN  IF found = {} THEN 0 ELSE CHOOSE i \in found : \A j \in found : j <= i

\* column_names' loop: the first row after `from` that IsHeaderRow accepts,
\* 0 when the reader is exhausted without one
HeaderScan(rows, from) ==
    LET found == {i \in (from + 1)..Len(rows) : IsHeaderRow(rows[i])}
    IN  IF found = {} THEN 0 ELSE CHOOSE i \in found : \A j \in found : i <= j

\* the pattern of iso_date: the number of leading \s, then whether
\* (\d{2})/(\d{2})/(\d{4})\s*\Z matches from there
Lead(raw) ==
    LET ok == {k \in 0..Len(raw) : \A i \in 1..k : IsSpace(raw[i])}
    IN  CHOOSE k \in ok : \A j \in ok : j <= k

Matches(raw) ==
    LET l == Lead(raw)
    IN  /\ Len(raw) >= l + 10
        /\ \A i \in {1, 2, 4, 5, 7, 8, 9, 10} : IsDigit(raw[l + i])
        /\ \A i \in {3, 6} : raw[l + i] = "/"
        /\ \A i \in (l + 11)..Len(raw) : IsSpace(raw[i])

\* iso_date writing \3-\2-\1
iso_date_day_first(raw) ==
    LET l == Lead(raw)
    IN  IF Matches(raw)
        THEN <<raw[l + 7], raw[l + 8], raw[l + 9], raw[l + 10], "-",
               raw[l + 4], raw[l + 5], "-", raw[l + 1], raw[l + 2]>>
        ELSE raw

\* iso_date returning a value it does not convert stripped
iso_date_strip(raw) ==
    LET l == Lead(raw)
    IN  IF Matches(raw)
        THEN <<raw[l + 7], raw[l + 8], raw[l + 9], raw[l + 10], "-",
               raw[l + 1], raw[l + 2], "-", raw[l + 4], raw[l + 5]>>
        ELSE Strip(raw)

\* iso_date: re.sub of the whole-string pattern by \3-\1-\2
iso_date(raw) ==
    LET l == Lead(raw)
    IN  IF Matches(raw)
        THEN <<raw[l + 7], raw[l + 8], raw[l + 9], raw[l + 10], "-",
               raw[l + 1], raw[l + 2], "-", raw[l + 4], raw[l + 5]>>
        ELSE raw

\* dict(zip(column_names, row)): no padding of a short row
zip_dict(names, row) ==
    LET n == IF Len(row) < Len(names) THEN Len(row) ELSE Len(names)
    IN  [k \in {names[i] : i \in 1..n} |->
            row[CHOOSE i \in 1..n : names[i] = k /\ \A j \in 1..n : names[j] = k => j <= i]]

\* dict(zip_longest(column_names, row[:column_count], fillvalue="")): a later
\* pair replaces an earlier pair with the same key
zip_longest_dict(names, row) ==
    LET n == Len(names)
        padded == [i \in 1..n |-> IF i <= Len(row) THEN row[i] ELSE <<>>]
        last(k) == CHOOSE i \in 1..n : names[i] = k /\ \A j \in 1..n : names[j] = k => j <= i
    IN  [k \in Range(names) |-> padded[last(k)]]

\* __next__, after next(self._reader) returned `row`
next_transaction(names, row) ==
    LET transaction == zip_longest_dict(names, row)
    IN  IF DATE_COLUMN \in DOMAIN transaction
        THEN [transaction EXCEPT ![DATE_COLUMN] = iso_date(transaction[DATE_COLUMN])]
        ELSE transaction

\* next(self._reader) raises StopIteration, or stops at an empty row
EndOfData_empty_row(rows, p) == IF p >= Len(rows) THEN TRUE ELSE rows[p + 1] = <<>>

\* next(self._reader) raises StopIteration after p rows
EndOfData(rows, p) == p >= Len(rows)

-----------------------------------------------------------------------------
(* main's sorted() and write_transactions *)

\* a stable sort: x goes behind every element that is not smaller than it
RECURSIVE InsertDescending(_, _)
InsertDescending(s, x) ==
    IF s = <<>> THEN <<x>>
    ELSE IF Lt(Head(s), x) THEN <<x>> \o s
    ELSE <<Head(s)>> \o InsertDescending(Tail(s), x)

RECURSIVE InsertAscending(_, _)
InsertAscending(s, x) ==
    IF s = <<>> THEN <<x>>
    ELSE IF Lt(x, Head(s)) THEN <<x>> \o s
    ELSE <<Head(s)>> \o InsertAscending(Tail(s), x)

\* sorted(transactions)
RECURSIVE sorted_forward(_)
sorted_forward(ts) ==
    IF ts = <<>> THEN <<>>
    ELSE InsertAscending(sorted_forward(SubSeq(ts, 1, Len(ts) - 1)), ts[Len(ts)])

\* sorted(transactions, reverse=True)
RECURSIVE sorted_reverse(_)
sorted_reverse(ts) ==
    IF ts = <<>> THEN <<>>
    ELSE InsertDescending(sorted_reverse(SubSeq(ts, 1, Len(ts) - 1)), ts[Len(ts)])

\* a row of the record's stripped key instead of its data
DictRow_index(data, fieldnames) ==
    [i \in 1..Len(fieldnames) |-> Strip(Get(data, fieldnames[i], <<>>))]

\* DictWriter's row of one dict: the fieldnames' values in the fieldnames'
\* order, restval "" for a missing key, extra keys ignored
DictRow(data, fieldnames) ==
    [i \in 1..Len(fieldnames) |-> Get(data, fieldnames[i], <<>>)]

\* the generator write_transactions hands to writerows
Retained(ts) == SelectSeq(ts, LAMBDA t : ~is_blank(t))

\* writerows: one row per transaction the generator yields
writerows(ts, fieldnames) ==
    LET kept == Retained(ts)
    IN  [i \in 1..Len(kept) |-> DictRow(kept[i], fieldnames)]

-----------------------------------------------------------------------------
(* Inputs *)

InPath == "in.csv"
OutPath == "out.csv"
Paths == {InPath, OutPath}
NoPath == ""
NoExit == 0 - 1
NoFile == [exists |-> FALSE, rows |-> <<>>]

MEMO == <<"M", "e", "m", "o">>
March4 == <<"0", "3", "/", "0", "4", "/", "2", "0", "2", "4">>
Padded1340 == <<" ", "1", "3", "/", "4", "0", "/", "2", "0", "2", "4", "\t">>
Coffee == <<"C", "O", "F", "F", "E", "E">>
Amount450 == <<"4", ".", "5", "0">>
Ref12345 == <<"1", "2", "3", "4", "5">>

HeaderPool ==
    { <<REF, DATE, DESCRIPTION, AMOUNT>>,
      <<DATE, MEMO, DESCRIPTION, AMOUNT, REF>>,
      <<DATE, DESCRIPTION, AMOUNT, REF, DATE>> }

RowPool ==
    HeaderPool \cup
    { <<DATE, DESCRIPTION, AMOUNT>>,
      <<>>,
      <<Ref12345, March4, Coffee, Amount450>>,
      <<Padded1340, <<"x">>, <<" ", "x">>, Amount450, March4, Ref12345>>,
      <<<<" ">>, <<>>, <<"\t">>>> }

InputFiles == UNION {[1..n -> RowPool] : n \in 0..MaxRows}

ArgvChoices == {<<"prog">>, <<"prog", InPath>>, <<"prog", InPath, OutPath>>}

DateInputs ==
    {<<>>, <<"2", "0", "2", "4", "-", "0", "3", "-", "0", "4">>} \cup
    { lead \o month \o sep \o day \o <<"/">> \o year \o trail :
        lead \in {<<>>, <<" ">>, <<"\t", " ">>},
        month \in {<<"0", "3">>, <<"1", "3">>, <<"3">>, <<"0", "x">>},
        sep \in {<<"/">>, <<"-">>},
        day \in {<<"0", "4">>, <<"4", "0">>, <<"4">>},
        year \in {<<"2", "0", "2", "4">>, <<"2", "4">>, <<"2", "0", "2", "4", "5">>},
        trail \in {<<>>, <<" ">>, <<"\t", "\t">>, <<" ", "x">>} }

-----------------------------------------------------------------------------
(* main *)

Init ==
    /\ argv \in ArgvChoices
    /\ \E content \in {NoFile} \cup {[exists |-> TRUE, rows |-> f] : f \in InputFiles} :
          fs = [p \in Paths |-> IF p = InPath THEN content ELSE NoFile]
    /\ pc = "main"
    /\ input_file = NoPath
    /\ output_file = NoPath
    /\ input_open = FALSE
    /\ output_open = FALSE
    /\ line_num = 0
    /\ column_names = NotCached
    /\ transactions = <<>>
    /\ sorted_transactions = <<>>
    /\ exit_code = NoExit
    /\ stderr = ""
    /\ raw_date = <<>>
    /\ date_twice = <<>>

\* len(sys.argv) < 2: the usage line and sys.exit(1)
Usage ==
    /\ pc = "main"
    /\ Len(argv) < 2
    /\ pc' = "exit"
    /\ exit_code' = 1
    /\ UNCHANGED <<argv, fs, input_file, output_file, input_open, output_open,
                   line_num, column_names, transactions, sorted_transactions,
                   stderr, raw_date, date_twice>>

\* input_file, and output_file = input_file unless a second path is given
ParseArgs ==
    /\ pc = "main"
    /\ Len(argv) >= 2
    /\ input_file' = argv[2]
    /\ output_file' = IF Len(argv) > 2 THEN argv[3] ELSE argv[2]
    /\ pc' = "read_transactions"
    /\ UNCHANGED <<argv, fs, input_open, output_open, line_num, column_names,
                   transactions, sorted_transactions, exit_code, stderr,
                   raw_date, date_twice>>

\* open(input_file, mode="r") and the reader's construction
OpenInput ==
    /\ pc = "read_transactions"
    /\ fs[input_file].exists
    /\ input_open' = TRUE
    /\ line_num' = 0
    /\ column_names' = NotCached
    /\ pc' = "list"
    /\ UNCHANGED <<argv, fs, input_file, output_file, output_open, transactions,
                   sorted_transactions, exit_code, stderr, raw_date, date_twice>>

\* open(input_file) raises: main does not catch it
OpenInputFails ==
    /\ pc = "read_transactions"
    /\ ~fs[input_file].exists
    /\ pc' = "exit"
    /\ exit_code' = 1
    /\ stderr' = "FileNotFoundError"
    /\ UNCHANGED <<argv, fs, input_file, output_file, input_open, output_open,
                   line_num, column_names, transactions, sorted_transactions,
                   raw_date, date_twice>>

\* the rows csv.reader yields from the open input file
ReaderRows == fs[input_file].rows

\* the cached column_names, or the row the first use of column_names finds
HeaderLine == IF column_names # NotCached THEN line_num ELSE HeaderScan(ReaderRows, line_num)
HeaderFound == column_names # NotCached \/ HeaderLine # 0
Header == IF column_names # NotCached THEN column_names ELSE ReaderRows[HeaderLine]

\* __next__ -> column_names raises MissingRequiredColumnsError: the with block
\* closes the input, main reports it and exits 1
NextMissingColumns ==
    /\ pc = "list"
    /\ ~HeaderFound
    /\ line_num' = Len(ReaderRows)
    /\ input_open' = FALSE
    /\ pc' = "exit"
    /\ exit_code' = 1
    /\ stderr' = "is not a valid KeyBank CSV file."
    /\ UNCHANGED <<argv, fs, input_file, output_file, output_open,
                   column_names, transactions, sorted_transactions, raw_date,
                   date_twice>>

\* __next__ returns the transaction of the next row
NextTransaction ==
    /\ pc = "list"
    /\ HeaderFound
    /\ ~EndOfData(ReaderRows, HeaderLine)
    /\ column_names' = Header
    /\ line_num' = HeaderLine + 1
    /\ transactions' = Append(transactions, next_transaction(Header, ReaderRows[HeaderLine + 1]))
    /\ UNCHANGED <<argv, fs, pc, input_file, output_file, input_open,
                   output_open, sorted_transactions, exit_code, stderr,
                   raw_date, date_twice>>

\* list(reader) returned without the with block closing the input
NextStopIteration_leak ==
    /\ pc = "list"
    /\ HeaderFound
    /\ EndOfData(ReaderRows, HeaderLine)
    /\ column_names' = Header
    /\ line_num' = HeaderLine
    /\ pc' = "sorted"
    /\ UNCHANGED <<argv, fs, input_file, output_file, input_open, output_open,
                   transactions, sorted_transactions, exit_code, stderr,
                   raw_date, date_twice>>

\* __next__ raises StopIteration: list(reader) is complete, the with block
\* closes the input and read_transactions returns
NextStopIteration ==
    /\ pc = "list"
    /\ HeaderFound
    /\ EndOfData(ReaderRows, HeaderLine)
    /\ column_names' = Header
    /\ line_num' = HeaderLine
    /\ input_open' = FALSE
    /\ pc' = "sorted"
    /\ UNCHANGED <<argv, fs, input_file, output_file, output_open,
                   transactions, sorted_transactions, exit_code, stderr,
                   raw_date, date_twice>>

\* sorted(transactions, reverse=True)
Sorted ==
    /\ pc = "sorted"
    /\ sorted_transactions' = sorted_reverse(transactions)
    /\ pc' = "write_transactions"
    /\ UNCHANGED <<argv, fs, input_file, output_file, input_open, output_open,
                   line_num, column_names, transactions, exit_code, stderr,
                   raw_date, date_twice>>

\* open(output_file, mode="w"): creates or truncates the file
OpenOutput ==
    /\ pc = "write_transactions"
    /\ fs' = [fs EXCEPT ![output_file] = [exists |-> TRUE, rows |-> <<>>]]
    /\ output_open' = TRUE
    /\ pc' = "writeheader"
    /\ UNCHANGED <<argv, input_file, output_file, input_open, line_num,
                   column_names, transactions, sorted_transactions, exit_code,
                   stderr, raw_date, date_twice>>

\* open(output_file, mode="w") raises: main does not catch it
OpenOutputFails ==
    /\ pc = "write_transactions"
    /\ pc' = "exit"
    /\ exit_code' = 1
    /\ stderr' = "OSError"
    /\ UNCHANGED <<argv, fs, input_file, output_file, input_open, output_open,
                   line_num, column_names, transactions, sorted_transactions,
                   raw_date, date_twice>>

\* writer.writeheader()
WriteHeader ==
    /\ pc = "writeheader"
    /\ fs' = [fs EXCEPT ![output_file].rows = Append(@, KEY_COLUMNS)]
    /\ pc' = "writerows"
    /\ UNCHANGED <<argv, input_file, output_file, input_open, output_open,
                   line_num, column_names, transactions, sorted_transactions,
                   exit_code, stderr, raw_date, date_twice>>

\* writer.writerows(...), the with block closes the output, main returns
WriteRows ==
    /\ pc = "writerows"
    /\ fs' = [fs EXCEPT ![output_file].rows = @ \o writerows(sorted_transactions, KEY_COLUMNS)]
    /\ output_open' = FALSE
    /\ pc' = "exit"
    /\ exit_code' = 0
    /\ UNCHANGED <<argv, input_file, output_file, input_open, line_num,
                   column_names, transactions, sorted_transactions, stderr,
                   raw_date, date_twice>>

Next ==
    \/ Usage
    \/ ParseArgs
    \/ OpenInput
    \/ OpenInputFails
    \/ NextMissingColumns
    \/ NextTransaction
    \/ NextStopIteration
    \/ Sorted
    \/ OpenOutput
    \/ OpenOutputFails
    \/ WriteHeader
    \/ WriteRows

Spec == Init /\ [][Next]_vars

-----------------------------------------------------------------------------
(* The date column of one record, for every text of DateInputs *)

InitDate ==
    /\ argv = <<"prog">>
    /\ fs = [p \in Paths |-> NoFile]
    /\ pc = "date_next"
    /\ input_file = NoPath
    /\ output_file = NoPath
    /\ input_open = FALSE
    /\ output_open = FALSE
    /\ line_num = 0
    /\ column_names \in HeaderPool
    /\ transactions = <<>>
    /\ sorted_transactions = <<>>
    /\ exit_code = NoExit
    /\ stderr = ""
    /\ raw_date \in DateInputs
    /\ date_twice = <<>>

\* a data row holding raw_date under every Date column of the header
DateRow == [i \in 1..Len(column_names) |->
               IF column_names[i] = DATE_COLUMN THEN raw_date ELSE <<"x">>]

\* __next__ on DateRow
DateNext ==
    /\ pc = "date_next"
    /\ transactions' = <<next_transaction(column_names, DateRow)>>
    /\ pc' = "date_again"
    /\ UNCHANGED <<argv, fs, input_file, output_file, input_open, output_open,
                   line_num, column_names, sorted_transactions, exit_code,
                   stderr, raw_date, date_twice>>

\* iso_date on the value __next__ stored
DateAgain ==
    /\ pc = "date_again"
    /\ date_twice' = iso_date(transactions[1][DATE_COLUMN])
    /\ pc' = "date_done"
    /\ UNCHANGED <<argv, fs, input_file, output_file, input_open, output_open,
                   line_num, column_names, transactions, sorted_transactions,
                   exit_code, stderr, raw_date>>

NextDate == DateNext \/ DateAgain

SpecDate == InitDate /\ [][NextDate]_vars

-----------------------------------------------------------------------------
(* Vocabulary of the properties *)

Iso0304 == <<"2", "0", "2", "4", "-", "0", "3", "-", "0", "4">>
Iso1340 == <<"2", "0", "2", "4", "-", "1", "3", "-", "4", "0">>

\* the run ended normally
Succeeded == pc = "exit" /\ exit_code = 0

\* the input file still holds what the run was given
InputIntact == pc \in {"list", "sorted", "write_transactions"}

\* list(reader) has returned and the input file still holds the input
ReadComplete == pc \in {"sorted", "write_transactions"}

InputRows == fs[input_file].rows
OutputRows == fs[output_file].rows

\* the row names each of Date, Description, Amount, Ref.#
NamesAllRequired(row) ==
    /\ \E j \in 1..Len(row) : row[j] = <<"D", "a", "t", "e">>
    /\ \E j \in 1..Len(row) : row[j] = <<"D", "e", "s", "c", "r", "i", "p", "t", "i", "o", "n">>
    /\ \E j \in 1..Len(row) : row[j] = <<"A", "m", "o", "u", "n", "t">>
    /\ \E j \in 1..Len(row) : row[j] = <<"R", "e", "f", ".", "#">>

\* the index of the first such row of the file, 0 when it has none
FirstHeader(rows) ==
    IF \A i \in 1..Len(rows) : ~NamesAllRequired(rows[i]) THEN 0
    ELSE CHOOSE i \in 1..Len(rows) :
            NamesAllRequired(rows[i]) /\ \A j \in 1..(i - 1) : ~NamesAllRequired(rows[j])

FieldAt(row, j) == IF j <= Len(row) THEN row[j] ELSE <<>>

Normalized(name, value) == IF name = <<"D", "a", "t", "e">> THEN iso_date(value) ELSE value

IsLastOf(names, j) == \A l \in (j + 1)..Len(names) : names[l] # names[j]

\* the value a record holds under `name`: the row's field at the last header
\* position of that name, the Date normalized
Expected(names, row, name) ==
    LET j == CHOOSE l \in 1..Len(names) : names[l] = name /\ IsLastOf(names, l)
    IN  Normalized(name, FieldAt(row, j))

\* the four values of a record in canonical order, and its trimmed key
FourOf(t) == <<t[DATE], t[DESCRIPTION], t[AMOUNT], t[REF]>>
Trimmed(r) == [k \in 1..4 |-> Strip(r[k])]
AllEmpty(r) == \A k \in 1..4 : Strip(r[k]) = <<>>

Count(seq, x) == Cardinality({i \in 1..Len(seq) : seq[i] = x})

\* a > b for texts and a >= b for tuples of four texts, by the first difference
TextGt(a, b) ==
    \E n \in 0..Len(b) :
        /\ n <= Len(a)
        /\ \A i \in 1..n : a[i] = b[i]
        /\ \/ n = Len(b) /\ Len(a) > n
           \/ n < Len(a) /\ n < Len(b) /\ Code(a[n + 1]) > Code(b[n + 1])

KeyGeq(x, y) ==
    \/ x = y
    \/ \E k \in 1..4 : (\A j \in 1..(k - 1) : x[j] = y[j]) /\ TextGt(x[k], y[k])

DateShape(s) ==
    /\ Len(s) = 10
    /\ \A i \in {1, 2, 4, 5, 7, 8, 9, 10} : s[i] \in {"0", "1", "2", "3", "4", "5", "6", "7", "8", "9"}
    /\ s[3] = "/"
    /\ s[6] = "/"

-----------------------------------------------------------------------------
(* Properties *)

\* C1: when no row of the input names all four required columns, every step
\* of the run from the opening of the input leaves every file as it is and
\* the output unopened, and the only way on is the exit with code 1 that
\* reports the invalid file, after which nothing runs; also when the output
\* path is the input path.
C1_NoHeader ==
    /\ input_file # NoPath
    /\ fs[input_file].exists
    /\ FirstHeader(InputRows) = 0

C1_MissingColumnsNoOutput ==
    [][/\ pc # "exit"
       /\ (C1_NoHeader /\ pc \in {"read_transactions", "list"}) =>
            /\ fs' = fs
            /\ ~output_open'
            /\ pc' \in {"list", "exit"}
            /\ pc' = "exit" =>
                  /\ exit_code' = 1
                  /\ stderr' = "is not a valid KeyBank CSV file."]_vars

C1_Witness ==
    /\ C1_NoHeader
    /\ pc = "exit"
    /\ output_file = input_file
    /\ Len(InputRows) >= 2
    /\ \E i \in 1..Len(InputRows) : InputRows[i] = <<DATE, DESCRIPTION, AMOUNT>>

\* C2: the output's first line is exactly Date, Description, Amount, Ref.#,
\* and every output data row is, in that order, the four values some record
\* holds under those names, each record holding the input row's field under
\* that column name (the Date normalized) whatever the header's order and
\* extra columns.
C2_CanonicalHeaderAndRows ==
    /\ (pc = "writerows" \/ Succeeded) =>
            OutputRows[1] = << <<"D", "a", "t", "e">>,
                               <<"D", "e", "s", "c", "r", "i", "p", "t", "i", "o", "n">>,
                               <<"A", "m", "o", "u", "n", "t">>,
                               <<"R", "e", "f", ".", "#">> >>
    /\ ReadComplete =>
            LET h == FirstHeader(InputRows)
            IN  \A i \in 1..Len(transactions) : \A k \in 1..4 :
                    /\ KEY_COLUMNS[k] \in DOMAIN transactions[i]
                    /\ transactions[i][KEY_COLUMNS[k]] =
                          Expected(InputRows[h], InputRows[h + i], KEY_COLUMNS[k])
    /\ Succeeded =>
            \A r \in 2..Len(OutputRows) :
                /\ Len(OutputRows[r]) = 4
                /\ \E i \in 1..Len(transactions) : OutputRows[r] = FourOf(transactions[i])

C2_Witness ==
    /\ Succeeded
    /\ column_names = <<REF, DATE, DESCRIPTION, AMOUNT>>
    /\ Len(OutputRows) >= 2
    /\ OutputRows[2] = <<Iso0304, Coffee, Amount450, Ref12345>>

\* C3: in the finished output, the trimmed four-field key of every data row
\* is greater than or equal to that of the data row after it, comparing
\* field by field from the left and texts by code point.
C3_SortedDescending ==
    Succeeded =>
        \A r \in 2..(Len(OutputRows) - 1) :
            KeyGeq(Trimmed(OutputRows[r]), Trimmed(OutputRows[r + 1]))

C3_Witness ==
    /\ Succeeded
    /\ Len(transactions) >= 2
    /\ Len(OutputRows) >= 3
    /\ Trimmed(OutputRows[2]) # Trimmed(OutputRows[3])
    /\ OutputRows[3] = FourOf(transactions[1])

\* C4 (as claimed): a record whose four key values are all empty after
\* trimming is written as a data row of the output.
C4_BlankRetained ==
    Succeeded =>
        \A i \in 1..Len(transactions) :
            AllEmpty(FourOf(transactions[i])) =>
                \E r \in 2..Len(OutputRows) : OutputRows[r] = FourOf(transactions[i])

\* C4 (amended): no data row of the finished output has all four values empty
\* after trimming: a blank record is always dropped.
C4_BlankDropped ==
    Succeeded => \A r \in 2..Len(OutputRows) : ~AllEmpty(OutputRows[r])

C4_Witness ==
    /\ Succeeded
    /\ Len(OutputRows) >= 2
    /\ \E i \in 1..Len(transactions) :
            /\ AllEmpty(FourOf(transactions[i]))
            /\ FourOf(transactions[i]) # <<<<>>, <<>>, <<>>, <<>>>>

\* C5: a record whose Date field, trimmed, is two digits, '/', two digits,
\* '/', four digits holds under Date the text YYYY-MM-DD built from those
\* digit groups in place, with no whitespace and whatever the digits are.
C5_DateRewritten ==
    pc \in {"date_again", "date_done"} =>
        LET s == Strip(raw_date)
        IN  DateShape(s) =>
                transactions[1][DATE] =
                    <<s[7], s[8], s[9], s[10], "-", s[1], s[2], "-", s[4], s[5]>>

C5_Witness ==
    /\ pc = "date_again"
    /\ raw_date = <<"\t", " ", "1", "3", "/", "4", "0", "/", "2", "0", "2", "4", " ">>
    /\ transactions[1][DATE] = Iso1340

\* C6: normalizing the normalized Date again changes nothing, and a Date that
\* is not of the MM/DD/YYYY shape after trimming is stored exactly as read.
C6_Idempotent ==
    pc = "date_done" =>
        /\ date_twice = transactions[1][DATE]
        /\ ~DateShape(Strip(raw_date)) => transactions[1][DATE] = raw_date

C6_Witness ==
    /\ pc = "date_done"
    /\ raw_date = <<" ", "0", "3", "/", "0", "4", "/", "2", "0", "2", "4">>
    /\ transactions[1][DATE] = Iso0304
    /\ date_twice = Iso0304

\* C7: every row after the header yields exactly one record, an empty row
\* included, and the finished output holds each four-value row exactly as
\* many times as there are non-blank records with those values.
C7_OneRowPerRecord ==
    /\ ReadComplete =>
            Len(transactions) = Len(InputRows) - FirstHeader(InputRows)
    /\ Succeeded =>
            LET data == SubSeq(OutputRows, 2, Len(OutputRows))
                kept == {i \in 1..Len(transactions) : ~AllEmpty(FourOf(transactions[i]))}
            IN  /\ Len(data) = Cardinality(kept)
                /\ \A i \in kept :
                      Count(data, FourOf(transactions[i])) =
                          Cardinality({j \in kept : FourOf(transactions[j]) = FourOf(transactions[i])})

C7_Witness ==
    /\ Succeeded
    /\ Len(transactions) = 3
    /\ FourOf(transactions[1]) = <<<<>>, <<>>, <<>>, <<>>>>
    /\ FourOf(transactions[2]) = FourOf(transactions[3])
    /\ Count(OutputRows, FourOf(transactions[2])) = 2

\* C8 (as claimed): a record's keys are the header's column names and, for
\* every header position, the value under the name at that position is the
\* row's field at that position, or the empty text when the row is shorter.
C8_PositionalZip ==
    (InputIntact /\ column_names # NotCached) =>
        \A i \in 1..Len(transactions) :
            LET row == InputRows[FirstHeader(InputRows) + i]
            IN  /\ DOMAIN transactions[i] = Range(column_names)
                /\ \A j \in 1..Len(column_names) :
                      transactions[i][column_names[j]] =
                          Normalized(column_names[j], FieldAt(row, j))

\* C8 (amended): the same, for every header position that is the last one
\* of its column name: a name the header repeats holds the field of its last
\* position.
C8_LastPositionZip ==
    (InputIntact /\ column_names # NotCached) =>
        \A i \in 1..Len(transactions) :
            LET row == InputRows[FirstHeader(InputRows) + i]
            IN  /\ DOMAIN transactions[i] = Range(column_names)
                /\ \A j \in 1..Len(column_names) :
                      IsLastOf(column_names, j) =>
                          transactions[i][column_names[j]] =
                              Normalized(column_names[j], FieldAt(row, j))

C8_Witness ==
    /\ InputIntact
    /\ column_names = <<DATE, DESCRIPTION, AMOUNT, REF, DATE>>
    /\ Len(transactions) >= 2
    /\ Len(InputRows[FirstHeader(InputRows) + 1]) > Len(column_names)
    /\ Len(InputRows[FirstHeader(InputRows) + 2]) < Len(column_names)
    /\ transactions[1][DATE] # Normalized(DATE, InputRows[FirstHeader(InputRows) + 1][1])

\* C9: once cached, column_names is the first row of the input that names all
\* required columns and never changes; there is no record before it is
\* cached, and the i-th record comes from the i-th row after it, a later
\* row that names all required columns included.
C9_HeaderInv ==
    InputIntact =>
        /\ column_names = NotCached => transactions = <<>>
        /\ column_names # NotCached =>
              LET h == FirstHeader(InputRows)
              IN  /\ h # 0
                  /\ column_names = InputRows[h]
                  /\ Len(transactions) = line_num - h
                  /\ \A i \in 1..Len(transactions) : \A k \in 1..4 :
                        transactions[i][KEY_COLUMNS[k]] =
                            Expected(InputRows[h], InputRows[h + i], KEY_COLUMNS[k])

C9_HeaderOnce ==
    /\ []C9_HeaderInv
    /\ [][column_names # NotCached => column_names' = column_names]_vars

C9_Witness ==
    /\ ReadComplete
    /\ FirstHeader(InputRows) = 2
    /\ Len(transactions) >= 1
    /\ NamesAllRequired(InputRows[3])
    /\ InputRows[3] # InputRows[2]
    /\ column_names = InputRows[2]
    /\ transactions[1][REF] = InputRows[3][1]
    /\ transactions[1][REF] \in Range(KEY_COLUMNS)

\* C10: the two file handles are never open together and none is open when
\* the run has ended; the step that opens the output starts with the input
\* closed, read to its end, and every row after the header held as a record.
C10_HandlesInv ==
    /\ ~(input_open /\ output_open)
    /\ pc = "exit" => ~input_open /\ ~output_open

C10_OutputAfterInput ==
    /\ []C10_HandlesInv
    /\ [][(~output_open /\ output_open') =>
            /\ ~input_open
            /\ line_num = Len(InputRows)
            /\ Len(transactions) = Len(InputRows) - FirstHeader(InputRows)]_vars

C10_Witness ==
    /\ Succeeded
    /\ output_file = input_file
    /\ Len(transactions) >= 2
    /\ Len(OutputRows) = 1 + Len(transactions)

====
